---- MODULE Spec2Model ----
(***************************************************************************)
(* Model of pages/02 (stock dashboard page): the two memoized provider     *)
(* wrappers get_stock_data and get_company_info, the pure formatter        *)
(* format_market_cap, and the render pass main().                          *)
(*                                                                         *)
(* A market cap n is held as a pair <<hi, lo>> with n = hi * 10^6 + lo and *)
(* 0 <= lo < 10^6, because 10^12 does not fit a 32-bit integer.             *)
(* A formatted string is held as the sequence of its characters.           *)
(***************************************************************************)
EXTENDS Integers, Sequences, FiniteSets, TLC

VARIABLES
    cache_hist,          \* memo table of get_stock_data: <<ticker, period>> -> [value, msgs]
    cache_info,          \* memo table of get_company_info: ticker -> [value, msgs]
    hist_calls,          \* per <<ticker, period>>: outcomes of the provider's history calls so far
    info_calls,          \* per ticker: outcomes of the provider's snapshot calls so far
    passes,              \* number of render passes run in this process
    company_group,       \* controls of the last pass
    selected_companies,
    selected_period,
    chart_type,
    fetched,             \* last pass: per selected company, what the fetch stage got
    stock_data,          \* last pass: the stock_data dict, as its items in insertion order
    company_info,        \* last pass: the company_info dict, as its items in insertion order
    out,                 \* last pass: the elements emitted to the page, in order
    result,              \* last pass: how main() ended
    market_cap,          \* argument of the format_market_cap call under study
    formatted            \* its return value (<<>> before the call)

vars == <<cache_hist, cache_info, hist_calls, info_calls, passes, company_group,
          selected_companies, selected_period, chart_type, fetched, stock_data,
          company_info, out, result, market_cap, formatted>>

renderVars == <<cache_hist, cache_info, hist_calls, info_calls, passes, company_group,
                selected_companies, selected_period, chart_type, fetched, stock_data,
                company_info, out, result>>

(***************************************************************************)
(* Bounds of the model.                                                    *)
(***************************************************************************)
\* each group's catalog is cut to its first CatalogSize entries
CatalogSize == 2
\* the period selectbox offers the first NumPeriods of its options
NumPeriods == 2
\* render passes per process
MaxPasses == 2
\* format_market_cap inputs are m * 10^k + d >= 0 with 1 <= m <= MaxMult,
\* 0 <= k <= MaxExp and |d| <= MaxDelta
MaxMult == 3
MaxExp == 13
MaxDelta == 1

(***************************************************************************)
(* Program constants.                                                      *)
(***************************************************************************)
\* 1e6, the unit of the hi half of a market cap
Million == 1000000
\* 1e9 and 1e12 in units of 1e6
BillionHi == 1000
TrillionHi == 1000000

TOP_10_COMPANIES ==
    << <<"Apple", "AAPL">>, <<"Microsoft", "MSFT">>, <<"Alphabet (Google)", "GOOGL">>,
       <<"Amazon", "AMZN">>, <<"NVIDIA", "NVDA">>, <<"Tesla", "TSLA">>,
       <<"Meta (Facebook)", "META">>, <<"Berkshire Hathaway", "BRK-B">>,
       <<"Taiwan Semiconductor", "TSM">>, <<"Visa", "V">> >>

AI_COMPANIES ==
    << <<"NVIDIA", "NVDA">>, <<"AMD", "AMD">>, <<"Palantir", "PLTR">>,
       <<"Snowflake", "SNOW">>, <<"ServiceNow", "NOW">>, <<"UiPath", "PATH">>,
       <<"C3.ai", "AI">>, <<"SoundHound AI", "SOUN">>, <<"Arm Holdings", "ARM">>,
       <<"Symbotic", "SYM">> >>

COMPANY_GROUPS == [Top10 |-> TOP_10_COMPANIES, AI |-> AI_COMPANIES]

period_options == << <<"1Y", "1y">>, <<"2Y", "2y">>, <<"3Y", "3y">>, <<"5Y", "5y">> >>

Min(a, b) == IF a < b THEN a ELSE b

\* list(companies_dict.keys()), cut to the catalog bound
Options(group) ==
    LET d == COMPANY_GROUPS[group]
    IN  [i \in 1..Min(CatalogSize, Len(d)) |-> d[i][1]]

\* companies_dict[company]
TickerOf(group, company) ==
    LET d == COMPANY_GROUPS[group]
        i == CHOOSE j \in 1..Len(d) : d[j][1] = company
    IN  d[i][2]

PeriodLabels == {period_options[i][1] : i \in 1..Min(NumPeriods, Len(period_options))}

\* period_options[selected_period]
PeriodOf(label) ==
    LET i == CHOOSE j \in 1..Len(period_options) : period_options[j][1] = label
    IN  period_options[i][2]

ChartTypes == {"line", "candlestick"}

(***************************************************************************)
(* String formatting, as sequences of characters.                          *)
(***************************************************************************)
Digit(d) == <<"0", "1", "2", "3", "4", "5", "6", "7", "8", "9">>[d + 1]

RECURSIVE Digits(_)
Digits(n) == IF n < 10 THEN <<Digit(n)>> ELSE Digits(n \div 10) \o <<Digit(n % 10)>>

\* f"{x:.2f}" of the value h / 100
Fixed2(h) == Digits(h \div 100) \o <<".", Digit((h % 100) \div 10), Digit(h % 10)>>

\* f"{n:,.0f}" of an integer n
RECURSIVE Grouped(_)
Grouped(n) ==
    IF n < 1000 THEN Digits(n)
    ELSE Grouped(n \div 1000)
         \o <<",", Digit((n % 1000) \div 100), Digit((n % 100) \div 10), Digit(n % 10)>>

\* the market cap hi * 10^6 + lo
Cap(hi, lo) == <<hi, lo>>

\* market_cap/1e12, /1e9, /1e6 rounded to hundredths as the f-string rounds it.
\* A quotient that is an exact decimal tie (x.xx5) is rounded up here; the float
\* quotient of such an input falls on either side, and MarketCaps holds none.
HundredthsT(mc) == (mc[1] + 5000) \div 10000
HundredthsB(mc) == (mc[1] + 5) \div 10
HundredthsM(mc) == mc[1] * 100 + (mc[2] + 5000) \div 10000

\* as format_market_cap, with each threshold compared by > instead of >=
format_market_cap_strict(mc) ==
    IF mc[1] > TrillionHi \/ (mc[1] = TrillionHi /\ mc[2] > 0)
    THEN <<"$">> \o Fixed2(HundredthsT(mc)) \o <<"T">>
    ELSE IF mc[1] > BillionHi \/ (mc[1] = BillionHi /\ mc[2] > 0)
    THEN <<"$">> \o Fixed2(HundredthsB(mc)) \o <<"B">>
    ELSE IF mc[1] > 1 \/ (mc[1] = 1 /\ mc[2] > 0)
    THEN <<"$">> \o Fixed2(HundredthsM(mc)) \o <<"M">>
    ELSE <<"$">> \o Grouped(mc[1] * Million + mc[2])

format_market_cap(mc) ==
    IF mc[1] >= TrillionHi THEN <<"$">> \o Fixed2(HundredthsT(mc)) \o <<"T">>
    ELSE IF mc[1] >= BillionHi THEN <<"$">> \o Fixed2(HundredthsB(mc)) \o <<"B">>
    ELSE IF mc[1] >= 1 THEN <<"$">> \o Fixed2(HundredthsM(mc)) \o <<"M">>
    ELSE <<"$">> \o Grouped(mc[2])

(***************************************************************************)
(* The provider (yfinance) and the page elements.                          *)
(***************************************************************************)
HistOutcomes == {"ok", "empty", "raise"}
SnapOutcomes == {"full", "nokeys", "raise"}

\* a value of get_stock_data: None, or a table of Close / Volume columns
NoneData == [isNone |-> TRUE, Close |-> <<>>, Volume |-> <<>>]
DataFrame(close, volume) == [isNone |-> FALSE, Close |-> close, Volume |-> volume]

\* stock.history(period=period) when it returns
ProviderHistory(ticker, period, outcome) ==
    IF outcome = "ok" THEN DataFrame(<<100, 110>>, <<5, 7>>) ELSE DataFrame(<<>>, <<>>)

\* stock.info when it returns: a dict with the four keys, or one without them
ProviderInfo(ticker, outcome) ==
    IF outcome = "full"
    THEN [longName |-> ticker, sector |-> "Technology",
          marketCap |-> Cap(2500, 0), currentPrice |-> 12345]
    ELSE [k \in {} |-> 0]

\* dict.get(key, default)
Get(d, key, default) == IF key \in DOMAIN d THEN d[key] ELSE default

\* one element emitted to the page
Elem(kind, who, text, detail) == [kind |-> kind, who |-> who, text |-> text, detail |-> detail]

Placeholder == [name |-> "N/A", sector |-> "N/A", marketCap |-> Cap(0, 0), currentPrice |-> 0]

(***************************************************************************)
(* get_stock_data and get_company_info: the bodies, then the memoized      *)
(* functions.  A body returns its value, the elements it emitted and       *)
(* whether an exception left it.                                           *)
(***************************************************************************)
\* as get_stock_data_body, with the handler returning None without st.error
get_stock_data_body_silent(ticker, period, outcome) ==
    IF outcome = "raise"
    THEN [ret |-> NoneData, msgs |-> <<>>, raised |-> FALSE]
    ELSE [ret |-> ProviderHistory(ticker, period, outcome), msgs |-> <<>>, raised |-> FALSE]

get_stock_data_body(ticker, period, outcome) ==
    IF outcome = "raise"
    THEN [ret |-> NoneData, msgs |-> <<Elem("error", <<ticker>>, "fetch_failed", <<>>)>>,
          raised |-> FALSE]
    ELSE [ret |-> ProviderHistory(ticker, period, outcome), msgs |-> <<>>, raised |-> FALSE]

\* as get_company_info_body, without the try/except around the provider call
get_company_info_body_unguarded(ticker, outcome) ==
    IF outcome = "raise"
    THEN [ret |-> Placeholder, msgs |-> <<>>, raised |-> TRUE]
    ELSE LET info == ProviderInfo(ticker, outcome)
         IN  [ret |-> [name |-> Get(info, "longName", "N/A"),
                       sector |-> Get(info, "sector", "N/A"),
                       marketCap |-> Get(info, "marketCap", Cap(0, 0)),
                       currentPrice |-> Get(info, "currentPrice", 0)],
              msgs |-> <<>>, raised |-> FALSE]

get_company_info_body(ticker, outcome) ==
    IF outcome = "raise"
    THEN [ret |-> Placeholder, msgs |-> <<>>, raised |-> FALSE]
    ELSE LET info == ProviderInfo(ticker, outcome)
         IN  [ret |-> [name |-> Get(info, "longName", "N/A"),
                       sector |-> Get(info, "sector", "N/A"),
                       marketCap |-> Get(info, "marketCap", Cap(0, 0)),
                       currentPrice |-> Get(info, "currentPrice", 0)],
              msgs |-> <<>>, raised |-> FALSE]

\* the log of provider calls, one more call made
Logged(calls, key, outcome) ==
    IF key \in DOMAIN calls THEN [calls EXCEPT ![key] = Append(@, outcome)]
    ELSE calls @@ (key :> <<outcome>>)

\* as get_stock_data, with a None result returned but not stored
get_stock_data_unstored_failure(s, ticker, period, outcome) ==
    LET key == <<ticker, period>> IN
    IF key \in DOMAIN s.cache_hist
    THEN [s EXCEPT !.ret = s.cache_hist[key].value, !.hit = TRUE,
                   !.out = @ \o s.cache_hist[key].msgs]
    ELSE LET r == get_stock_data_body(ticker, period, outcome) IN
         [s EXCEPT !.hist_calls = Logged(@, key, outcome),
                   !.cache_hist = IF r.ret.isNone THEN @
                                  ELSE @ @@ (key :> [value |-> r.ret, msgs |-> r.msgs]),
                   !.ret = r.ret, !.hit = FALSE, !.out = @ \o r.msgs]

\* @st.cache_data around get_stock_data: a hit returns the stored value and
\* replays the stored elements; a miss runs the body and stores both.
get_stock_data(s, ticker, period, outcome) ==
    LET key == <<ticker, period>> IN
    IF key \in DOMAIN s.cache_hist
    THEN [s EXCEPT !.ret = s.cache_hist[key].value, !.hit = TRUE,
                   !.out = @ \o s.cache_hist[key].msgs]
    ELSE LET r == get_stock_data_body(ticker, period, outcome) IN
         IF r.raised
         THEN [s EXCEPT !.hist_calls = Logged(@, key, outcome), !.result = "Exception"]
         ELSE [s EXCEPT !.hist_calls = Logged(@, key, outcome),
                        !.cache_hist = @ @@ (key :> [value |-> r.ret, msgs |-> r.msgs]),
                        !.ret = r.ret, !.hit = FALSE, !.out = @ \o r.msgs]

\* @st.cache_data around get_company_info
get_company_info(s, ticker, outcome) ==
    IF ticker \in DOMAIN s.cache_info
    THEN [s EXCEPT !.ret = s.cache_info[ticker].value, !.hit = TRUE,
                   !.out = @ \o s.cache_info[ticker].msgs]
    ELSE LET r == get_company_info_body(ticker, outcome) IN
         IF r.raised
         THEN [s EXCEPT !.info_calls = Logged(@, ticker, outcome), !.result = "Exception"]
         ELSE [s EXCEPT !.info_calls = Logged(@, ticker, outcome),
                        !.cache_info = @ @@ (ticker :> [value |-> r.ret, msgs |-> r.msgs]),
                        !.ret = r.ret, !.hit = FALSE, !.out = @ \o r.msgs]

(***************************************************************************)
(* main(): one render pass.  s carries the memo tables, the call logs, the *)
(* locals of main and the elements emitted so far; s.result is "running"   *)
(* until main returns or an exception leaves it.                           *)
(***************************************************************************)
\* key in dict, dict[key] for a dict held as its items <<key, value>> in order
HasKey(d, key) == \E i \in 1..Len(d) : d[i][1] = key
Lookup(d, key) == d[CHOOSE i \in 1..Len(d) : d[i][1] = key][2]
Keys(d) == [i \in 1..Len(d) |-> d[i][1]]

\* as NoSelection and NoData, with the test left out
NoSelection_never(selected) == FALSE
NoData_never(sd) == FALSE

\* `if not selected_companies`
NoSelection(selected) == selected = <<>>

\* `if data is not None and not data.empty`
Usable(data) == ~data.isNone /\ data.Close # <<>>

\* `if not stock_data`
NoData(sd) == sd = <<>>

\* the outcome the provider gives a call made in this pass
OutcomeOf(f, key) == IF key \in DOMAIN f THEN f[key] ELSE "ok"

\* the loop of the fetch stage, from the i-th selected company on
RECURSIVE FetchLoop(_, _, _, _, _, _, _)
FetchLoop(s, i, group, selected, period, hOut, sOut) ==
    IF i > Len(selected) \/ s.result # "running" THEN s
    ELSE LET company == selected[i]
             ticker == TickerOf(group, company)
             s1 == get_stock_data(s, ticker, period, OutcomeOf(hOut, ticker))
             s2 == IF s1.result # "running" THEN s1
                   ELSE get_company_info(s1, ticker, OutcomeOf(sOut, ticker))
             s3 == IF s2.result # "running" THEN s2
                   ELSE [s2 EXCEPT
                           !.fetched = Append(@, [company |-> company, ticker |-> ticker,
                                                  data |-> s1.ret, hist_hit |-> s1.hit,
                                                  info |-> s2.ret, info_hit |-> s2.hit]),
                           !.stock_data = IF Usable(s1.ret)
                                          THEN Append(@, <<company, s1.ret>>) ELSE @,
                           !.company_info = IF Usable(s1.ret)
                                            THEN Append(@, <<company, s2.ret>>) ELSE @]
         IN  FetchLoop(s3, i + 1, group, selected, period, hOut, sOut)

\* the metric cards, from the i-th selected company on
RECURSIVE MetricCards(_, _, _)
MetricCards(s, i, selected) ==
    IF i > Len(selected) \/ s.result # "running" THEN s
    ELSE LET company == selected[i] IN
         IF ~HasKey(s.company_info, company)
         THEN [s EXCEPT !.result = "KeyError"]
         ELSE LET info == Lookup(s.company_info, company)
                  card == Elem("metric", <<company>>, "card",
                               <<"$">> \o Fixed2(info.currentPrice)
                               \o <<" ">> \o format_market_cap(info.marketCap))
                  caption == Elem("caption", <<company>>, info.sector, <<>>)
              IN  MetricCards([s EXCEPT !.out = @ \o <<card, caption>>], i + 1, selected)

\* the price chart: one trace per fetched company, or the first selection's candles
PriceChart(s, selected, chart) ==
    IF s.result # "running" THEN s
    ELSE LET h == [s EXCEPT !.out = Append(@, Elem("header", <<>>, "price", <<>>))] IN
         IF chart = "line"
         THEN [h EXCEPT !.colors = TRUE,
                        !.out = Append(@, Elem("plotly_chart", Keys(h.stock_data),
                                               "line", <<>>))]
         ELSE LET company == selected[1] IN
              IF ~HasKey(h.stock_data, company)
              THEN [h EXCEPT !.result = "KeyError"]
              ELSE LET notice == IF Len(selected) > 1
                                 THEN <<Elem("info", <<>>, "candlestick_single", <<>>)>>
                                 ELSE <<>>
                   IN  [h EXCEPT !.out = @ \o notice
                                   \o <<Elem("plotly_chart", <<company>>,
                                             "candlestick", <<>>)>>]

\* the performance table: one row per fetched company
PerformanceTable(s) ==
    IF s.result # "running" THEN s
    ELSE [s EXCEPT !.out = @ \o <<Elem("header", <<>>, "performance", <<>>),
                                  Elem("dataframe", Keys(s.stock_data), "performance",
                                       <<>>)>>]

\* the volume chart: its traces read `colors`, which only the line branch binds
VolumeChart(s) ==
    IF s.result # "running" THEN s
    ELSE LET h == [s EXCEPT !.out = Append(@, Elem("header", <<>>, "volume", <<>>))] IN
         IF Len(h.stock_data) > 0 /\ ~h.colors
         THEN [h EXCEPT !.result = "UnboundLocalError"]
         ELSE [h EXCEPT !.out = Append(@, Elem("plotly_chart", Keys(h.stock_data),
                                               "volume", <<>>))]

\* the closing block
Disclaimer(s) ==
    IF s.result # "running" THEN s
    ELSE [s EXCEPT !.out = @ \o <<Elem("header", <<>>, "more", <<>>),
                                  Elem("info", <<>>, "disclaimer", <<>>)>>,
                   !.result = "complete"]

main(c, group, selected, label, chart, hOut, sOut) ==
    LET s0 == [cache_hist |-> c.cache_hist, cache_info |-> c.cache_info,
               hist_calls |-> c.hist_calls, info_calls |-> c.info_calls,
               ret |-> NoneData, hit |-> FALSE, colors |-> FALSE,
               fetched |-> <<>>, stock_data |-> <<>>, company_info |-> <<>>,
               out |-> <<Elem("title", <<>>, "title", <<>>),
                         Elem("markdown", <<>>, "intro", <<>>)>>,
               result |-> "running"]
    IN  IF NoSelection(selected)
        THEN [s0 EXCEPT !.out = Append(@, Elem("warning", <<>>, "select_one", <<>>)),
                        !.result = "warning_halt"]
        ELSE LET s1 == FetchLoop(s0, 1, group, selected, PeriodOf(label), hOut, sOut) IN
             IF s1.result # "running" THEN s1
             ELSE IF NoData(s1.stock_data)
             THEN [s1 EXCEPT !.out = Append(@, Elem("error", <<>>, "no_data", <<>>)),
                             !.result = "error_halt"]
             ELSE LET s2 == [s1 EXCEPT !.out = Append(@, Elem("header", <<>>, "info", <<>>))]
                      s3 == MetricCards(s2, 1, selected)
                      s4 == PriceChart(s3, selected, chart)
                      s5 == PerformanceTable(s4)
                      s6 == VolumeChart(s5)
                  IN  Disclaimer(s6)

(***************************************************************************)
(* The process: render passes over one pair of memo tables.                *)
(***************************************************************************)
EmptyMap == [k \in {} |-> 0]

\* what st.sidebar.multiselect can return: the options picked, in the order picked
Selections(group) ==
    LET opts == {Options(group)[i] : i \in 1..Len(Options(group))}
    IN  {sel \in UNION {[1..n -> opts] : n \in 0..Cardinality(opts)} :
            \A i, j \in 1..Len(sel) : i # j => sel[i] # sel[j]}

\* the tickers of the selection whose call would reach the provider
MissHist(group, selected, label) ==
    {TickerOf(group, selected[i]) : i \in 1..Len(selected)}
        \ {t \in {k[1] : k \in DOMAIN cache_hist} : <<t, PeriodOf(label)>> \in DOMAIN cache_hist}
MissInfo(group, selected) ==
    {TickerOf(group, selected[i]) : i \in 1..Len(selected)} \ DOMAIN cache_info

Init ==
    /\ cache_hist = EmptyMap
    /\ cache_info = EmptyMap
    /\ hist_calls = EmptyMap
    /\ info_calls = EmptyMap
    /\ passes = 0
    /\ company_group = "Top10"
    /\ selected_companies = <<>>
    /\ selected_period = "3Y"
    /\ chart_type = "line"
    /\ fetched = <<>>
    /\ stock_data = <<>>
    /\ company_info = <<>>
    /\ out = <<>>
    /\ result = "none"
    /\ market_cap = Cap(0, 0)
    /\ formatted = <<>>

\* one run of main() with the controls as the user left them and the provider
\* answering each call that reaches it
Render ==
    /\ passes < MaxPasses
    /\ \E group \in DOMAIN COMPANY_GROUPS, label \in PeriodLabels, chart \in ChartTypes :
       \E selected \in Selections(group) :
       \E hOut \in [MissHist(group, selected, label) -> HistOutcomes],
          sOut \in [MissInfo(group, selected) -> SnapOutcomes] :
       \E r \in {main([cache_hist |-> cache_hist, cache_info |-> cache_info,
                        hist_calls |-> hist_calls, info_calls |-> info_calls],
                       group, selected, label, chart, hOut, sOut)} :
              /\ cache_hist' = r.cache_hist
              /\ cache_info' = r.cache_info
              /\ hist_calls' = r.hist_calls
              /\ info_calls' = r.info_calls
              /\ passes' = passes + 1
              /\ company_group' = group
              /\ selected_companies' = selected
              /\ selected_period' = label
              /\ chart_type' = chart
              /\ fetched' = r.fetched
              /\ stock_data' = r.stock_data
              /\ company_info' = r.company_info
              /\ out' = r.out
              /\ result' = r.result
    /\ UNCHANGED <<market_cap, formatted>>

Next == Render

Spec == Init /\ [][Next]_vars

(***************************************************************************)
(* format_market_cap on its own: calls with arguments around every power   *)
(* of ten up to 10^MaxExp.                                                 *)
(***************************************************************************)
RECURSIVE Pow10(_)
Pow10(k) == IF k = 0 THEN 1 ELSE 10 * Pow10(k - 1)

\* the pair of m * 10^k + d
CapOf(m, k, d) ==
    IF k < 6 THEN Cap(0, m * Pow10(k) + d)
    ELSE IF d < 0 THEN Cap(m * Pow10(k - 6) - 1, Million + d)
    ELSE Cap(m * Pow10(k - 6), d)

MarketCaps ==
    LET args == {a \in (1..MaxMult) \X (0..MaxExp) \X ((0 - MaxDelta)..MaxDelta) :
                    a[2] >= 6 \/ a[1] * Pow10(a[2]) + a[3] >= 0}
    IN  {CapOf(a[1], a[2], a[3]) : a \in args}

Format ==
    /\ \E n \in MarketCaps :
          /\ market_cap' = n
          /\ formatted' = format_market_cap(n)
    /\ UNCHANGED renderVars

NextFormat == Format

SpecFormat == Init /\ [][NextFormat]_vars

(***************************************************************************)
(* Vocabulary of the properties: the last pass, as the state records it.   *)
(***************************************************************************)
Ran == result # "none"

\* the fetch stage ran to its end
FetchDone == Ran /\ Len(fetched) = Len(selected_companies)

\* the i-th selected company's history fetch gave None or an empty table
FetchFailed(i) == fetched[i].data.isNone \/ fetched[i].data.Close = <<>>

\* the fetch stage left at least one company's data
GotData == stock_data # <<>>

\* the selected companies whose history fetch succeeded, in selection order
Survivors ==
    LET ok == SelectSeq(fetched, LAMBDA f : ~f.data.isNone /\ f.data.Close # <<>>)
    IN  [i \in 1..Len(ok) |-> ok[i].company]

OfKind(kind) == SelectSeq(out, LAMBDA e : e.kind = kind)

\* the companies of the metric cards, in the order emitted
CardCompanies ==
    LET cards == OfKind("metric") IN [i \in 1..Len(cards) |-> cards[i].who[1]]

PriceCharts == SelectSeq(out, LAMBDA e : e.kind = "plotly_chart" /\ e.text # "volume")
VolumeCharts == SelectSeq(out, LAMBDA e : e.kind = "plotly_chart" /\ e.text = "volume")
Tables == OfKind("dataframe")
Notice == Elem("info", <<>>, "candlestick_single", <<>>)
DisclaimerBlock == Elem("info", <<>>, "disclaimer", <<>>)

NoCardChartTable ==
    \A i \in 1..Len(out) : out[i].kind \notin {"metric", "caption", "plotly_chart", "dataframe"}

\* user-facing messages that name a ticker
MessagesAbout(ticker) ==
    SelectSeq(out, LAMBDA e : e.kind \in {"error", "warning", "info"} /\ e.who = <<ticker>>)

(***************************************************************************)
(* C1: in a pass where some but not all selected companies' history        *)
(* fetches fail, main() completes and its cards, price chart, table rows   *)
(* and volume traces are exactly the surviving companies in selection      *)
(* order.                                                                  *)
(***************************************************************************)
C1_PartialFailureRendersSurvivors ==
    (/\ FetchDone
     /\ \E i \in 1..Len(fetched) : FetchFailed(i)
     /\ \E i \in 1..Len(fetched) : ~FetchFailed(i))
    => /\ result = "complete"
       /\ CardCompanies = Survivors
       /\ Len(Tables) = 1 /\ Tables[1].who = Survivors
       /\ Len(VolumeCharts) = 1 /\ VolumeCharts[1].who = Survivors
       /\ chart_type = "line" => (Len(PriceCharts) = 1 /\ PriceCharts[1].who = Survivors)

(***************************************************************************)
(* C2: every pass of main() ends by the warning halt, the error halt or a  *)
(* complete render, never by an unhandled exception.                       *)
(***************************************************************************)
C2_NoUnhandledException ==
    Ran => result \in {"warning_halt", "error_halt", "complete"}

(***************************************************************************)
(* C3: a pass that leaves the fetch stage with data emits, in this order,  *)
(* metric cards, the price chart, the performance table, the volume chart  *)
(* and the disclaimer, whichever chart style is chosen.                    *)
(***************************************************************************)
C3_AllSectionsInOrder ==
    (FetchDone /\ GotData)
    => \E a, b, c, d, e \in 1..Len(out) :
          /\ a < b /\ b < c /\ c < d /\ d < e
          /\ out[a].kind = "metric"
          /\ out[b].kind = "plotly_chart" /\ out[b].text = chart_type
          /\ out[c].kind = "dataframe"
          /\ out[d].kind = "plotly_chart" /\ out[d].text = "volume"
          /\ out[e] = DisclaimerBlock

(***************************************************************************)
(* C4: in candlestick mode with more than one company selected, whenever   *)
(* the fetch stage lets the render proceed, the price chart holds the one  *)
(* series of the first selected company and the notice is emitted.         *)
(***************************************************************************)
C4_CandlestickShowsFirstSelected ==
    (FetchDone /\ GotData /\ chart_type = "candlestick"
     /\ Len(selected_companies) > 1)
    => /\ Len(PriceCharts) = 1
       /\ PriceCharts[1].who = <<selected_companies[1]>>
       /\ \E i \in 1..Len(out) : out[i] = Notice

(***************************************************************************)
(* C5: a pass with no company selected ends by the warning halt, reaches   *)
(* neither provider operation and emits no card, chart or table.           *)
(***************************************************************************)
C5_EmptySelectionHalts ==
    [][(passes' # passes /\ selected_companies' = <<>>)
       => /\ result' = "warning_halt"
          /\ out'[Len(out')].kind = "warning"
          /\ hist_calls' = hist_calls /\ info_calls' = info_calls
          /\ fetched' = <<>>
          /\ NoCardChartTable']_vars

C5_Witness == result = "warning_halt" /\ passes = 2 /\ hist_calls # EmptyMap

(***************************************************************************)
(* C6: a pass in which every selected company's history fetch fails emits  *)
(* the error message and halts before any card, chart or table.            *)
(***************************************************************************)
C6_AllFailedHalts ==
    (FetchDone /\ selected_companies # <<>>
     /\ \A i \in 1..Len(fetched) : FetchFailed(i))
    => /\ result = "error_halt"
       /\ out[Len(out)] = Elem("error", <<>>, "no_data", <<>>)
       /\ NoCardChartTable

C6_Witness ==
    /\ result = "error_halt"
    /\ Len(fetched) = 2
    /\ fetched[1].data.isNone
    /\ ~fetched[2].data.isNone

(***************************************************************************)
(* C7 as claimed: a company whose history fetch fails while the render     *)
(* goes on is dropped with no user-facing message about it.                *)
(***************************************************************************)
C7_DroppedSilently ==
    (FetchDone /\ GotData)
    => \A i \in 1..Len(fetched) :
          FetchFailed(i) => MessagesAbout(fetched[i].ticker) = <<>>

(***************************************************************************)
(* C7 amended: a company dropped for an empty table gets no user-facing    *)
(* message; a company dropped because the provider raised gets exactly one *)
(* error message naming its ticker, and nothing else.                      *)
(***************************************************************************)
C7_SilentOnlyWhenEmpty ==
    (FetchDone /\ GotData)
    => \A i \in 1..Len(fetched) :
          FetchFailed(i)
          => MessagesAbout(fetched[i].ticker)
               = IF fetched[i].data.isNone
                 THEN <<Elem("error", <<fetched[i].ticker>>, "fetch_failed", <<>>)>>
                 ELSE <<>>

C7_Witness ==
    /\ FetchDone /\ GotData
    /\ \E i \in 1..Len(fetched) :
          fetched[i].data.isNone /\ MessagesAbout(fetched[i].ticker) # <<>>

(***************************************************************************)
(* C8: format_market_cap ends its string in T exactly from 10^12 up, in B  *)
(* exactly from 10^9 to below 10^12, in M exactly from 10^6 to below 10^9, *)
(* and below 10^6 gives "$" and the integer grouped by thousands.          *)
(***************************************************************************)
IsDigit(ch) == ch \in {"0", "1", "2", "3", "4", "5", "6", "7", "8", "9"}

C9_SnapshotNeverFails ==
    /\ result # "Exception"
    /\ \A t \in DOMAIN info_calls :
          /\ t \in DOMAIN cache_info
          /\ cache_info[t].msgs = <<>>
          /\ info_calls[t][1] = "raise" => cache_info[t].value = Placeholder
    /\ \A i \in 1..Len(fetched) :
          /\ DOMAIN fetched[i].info = {"name", "sector", "marketCap", "currentPrice"}
          /\ MessagesAbout(fetched[i].ticker)
               = SelectSeq(MessagesAbout(fetched[i].ticker), LAMBDA e : e.text = "fetch_failed")

C9_Witness ==
    \E i \in 1..Len(fetched) :
       /\ info_calls[fetched[i].ticker] = <<"raise">>
       /\ ~FetchFailed(i)
       /\ fetched[i].info = Placeholder
       /\ HasKey(company_info, fetched[i].company)

(***************************************************************************)
(* C10: over the passes of one process the provider's history operation is *)
(* reached at most once per (ticker, period) and its snapshot operation at *)
(* most once per ticker; a later call gets the stored result of the first, *)
(* failures included, and no entry of a memo table is removed or replaced. *)
(***************************************************************************)
C10_MemoizedForProcessLifetime ==
    [][passes' # passes
       => /\ \A k \in DOMAIN hist_calls' : Len(hist_calls'[k]) <= 1
          /\ \A t \in DOMAIN info_calls' : Len(info_calls'[t]) <= 1
          /\ \A k \in DOMAIN cache_hist :
                k \in DOMAIN cache_hist' /\ cache_hist'[k] = cache_hist[k]
          /\ \A t \in DOMAIN cache_info :
                t \in DOMAIN cache_info' /\ cache_info'[t] = cache_info[t]
          /\ \A i \in 1..Len(fetched') :
                LET f == fetched'[i]
                    k == <<f.ticker, PeriodOf(selected_period')>>
                IN  /\ k \in DOMAIN hist_calls
                       => /\ f.hist_hit
                          /\ f.data = cache_hist[k].value
                          /\ hist_calls'[k] = hist_calls[k]
                    /\ f.ticker \in DOMAIN info_calls
                       => /\ f.info_hit
                          /\ f.info = cache_info[f.ticker].value
                          /\ info_calls'[f.ticker] = info_calls[f.ticker]]_vars

C10_Witness ==
    /\ passes = 2
    /\ \E i \in 1..Len(fetched) :
          /\ fetched[i].hist_hit /\ fetched[i].data.isNone
          /\ fetched[i].info_hit /\ fetched[i].info = Placeholder
    /\ \E i \in 1..Len(fetched) :
          fetched[i].hist_hit /\ ~fetched[i].data.isNone /\ fetched[i].data.Close = <<>>

====
